---- MODULE Spec2Model ----
(***************************************************************************)
(* Model of snapshot.py: the directory walk of generate_snapshot, the tree *)
(* rendering of generate_simple_file_structure, and the per-file pipeline  *)
(* get_file_info / is_text_file / normalize_content.                       *)
(*                                                                         *)
(* A Python str is a sequence of code points (integers), a bytes object a  *)
(* sequence of integers in 0..255.  A path is a sequence of names, a name  *)
(* a str.  A directory tree is a set of nodes [path, kind]; symbolic links *)
(* and unlistable subdirectories are outside the modelled trees.           *)
(***************************************************************************)
EXTENDS FiniteSets, Integers, Sequences, TLC

VARIABLES
    pc,                 \* position of the running operation
    tree,               \* the directory tree below input_dir
    ignore_patterns,    \* generate_snapshot argument
    include_content,    \* generate_snapshot / get_file_info argument
    include_structure,  \* generate_snapshot argument
    max_size,           \* generate_snapshot / get_file_info argument
    snapshot,           \* the dict built by generate_snapshot
    stack,              \* directories os.walk has still to visit
    pending,            \* files of the current directory not yet looped over
    cur,                \* `root` of the current os.walk triple
    listed,             \* directories on which a listing was performed
    opened,             \* files on which open() was called
    file_bytes,         \* bytes of the file given to get_file_info
    fault,              \* I/O failure injected into get_file_info
    file_info,          \* dict returned by get_file_info
    text,               \* argument of normalize_content
    once,               \* normalize_content(text)
    twice               \* normalize_content(normalize_content(text))

vars == <<pc, tree, ignore_patterns, include_content, include_structure,
          max_size, snapshot, stack, pending, cur, listed, opened,
          file_bytes, fault, file_info, text, once, twice>>

walkVars == <<tree, ignore_patterns, include_structure, snapshot, stack,
              pending, cur, listed, opened>>
fileVars == <<file_bytes, fault, file_info>>
normVars == <<text, once, twice>>

(***************************************************************************)
(* Bounds of the model.                                                    *)
(***************************************************************************)
MaxLen == 4         \* longest str given to normalize_content
MaxFileLen == 2     \* longest enumerated short file, in bytes
MaxReadSize == 3    \* largest max_size given to get_file_info alone
MaxNodes == 4       \* most nodes in a directory tree

(***************************************************************************)
(* Code points and literals.                                               *)
(***************************************************************************)
NUL == 0
LF == 10
CR == 13
SLASH == 47
REPLACEMENT == 65533                      \* U+FFFD

Min(a, b) == IF a < b THEN a ELSE b

\* "<binary_content>"
BINARY_CONTENT ==
    <<60, 98, 105, 110, 97, 114, 121, 95, 99, 111, 110, 116, 101, 110, 116, 62>>

\* sample_size default of is_text_file
SampleSize == 8192

\* str(e) of the exceptions the model injects
ErrOpen == <<111, 112, 101, 110>>         \* "open"
ErrRead == <<114, 101, 97, 100>>          \* "read"
ErrRaise == <<114, 97, 105, 115, 101>>    \* "raise"

Faults == {"none", "open", "read", "cls_open", "cls_read"}

(***************************************************************************)
(* str.replace(old, new) for a non-empty old: left to right, the matches   *)
(* do not overlap.                                                         *)
(***************************************************************************)
RECURSIVE Replace(_, _, _)
Replace(s, old, new) ==
    IF Len(s) < Len(old) THEN s
    ELSE IF SubSeq(s, 1, Len(old)) = old
         THEN new \o Replace(SubSeq(s, Len(old) + 1, Len(s)), old, new)
         ELSE <<s[1]>> \o Replace(Tail(s), old, new)

normalize_content_swapped(content) ==
    Replace(Replace(content, <<CR>>, <<LF>>), <<CR, LF>>, <<LF>>)

normalize_content(content) ==
    Replace(Replace(content, <<CR, LF>>, <<LF>>), <<CR>>, <<LF>>)

(***************************************************************************)
(* f.read(n) on a freshly opened file, n >= 0.                             *)
(***************************************************************************)
read(bytes, n) == SubSeq(bytes, 1, Min(n, Len(bytes)))

(***************************************************************************)
(* bytes.decode('utf-8', errors='replace') for bytes that are ASCII, a     *)
(* two-byte lead (0xC2..0xDF), a continuation byte or an invalid byte;     *)
(* three- and four-byte leads are not in ByteAlphabet.                     *)
(***************************************************************************)
RECURSIVE decode(_)
decode(b) ==
    IF b = <<>> THEN <<>>
    ELSE IF b[1] < 128 THEN <<b[1]>> \o decode(Tail(b))
    ELSE IF b[1] \in 194..223 /\ Len(b) >= 2 /\ b[2] \in 128..191
         THEN <<(b[1] - 192) * 64 + (b[2] - 128)>> \o decode(SubSeq(b, 3, Len(b)))
         ELSE <<REPLACEMENT>> \o decode(Tail(b))

is_text_file(bytes, sample_size, flt) ==
    IF flt \in {"cls_open", "cls_read"}
    THEN FALSE
    ELSE ~ \E i \in DOMAIN read(bytes, sample_size) : read(bytes, sample_size)[i] = NUL

get_file_info_keeps_partial(bytes, rel_path, inc, max, flt) ==
    IF ~inc THEN [path |-> rel_path]
    ELSE IF flt = "open" THEN [path |-> rel_path, error |-> ErrOpen]
    ELSE IF flt = "read" THEN [path |-> rel_path, error |-> ErrRead]
    ELSE IF flt \in {"cls_open", "cls_read"}
         THEN [path |-> rel_path, content |-> BINARY_CONTENT, error |-> ErrOpen]
    ELSE IF is_text_file(bytes, SampleSize, flt)
         THEN [path |-> rel_path, content |-> normalize_content(decode(read(bytes, max)))]
         ELSE [path |-> rel_path, content |-> BINARY_CONTENT]

get_file_info_classifies_buffer(bytes, rel_path, inc, max, flt) ==
    IF ~inc THEN [path |-> rel_path]
    ELSE IF flt = "open" THEN [path |-> rel_path, error |-> ErrOpen]
    ELSE IF flt = "read" THEN [path |-> rel_path, error |-> ErrRead]
    ELSE IF is_text_file(read(bytes, max), SampleSize, flt)
         THEN [path |-> rel_path, content |-> normalize_content(decode(read(bytes, max)))]
         ELSE [path |-> rel_path, content |-> BINARY_CONTENT]

\* The dict get_file_info returns; rel_path is the result of line 22.
get_file_info(bytes, rel_path, inc, max, flt) ==
    IF ~inc THEN [path |-> rel_path]
    ELSE IF flt = "open" THEN [path |-> rel_path, error |-> ErrOpen]
    ELSE IF flt = "read" THEN [path |-> rel_path, error |-> ErrRead]
    ELSE IF is_text_file(bytes, SampleSize, flt)
         THEN [path |-> rel_path, content |-> normalize_content(decode(read(bytes, max)))]
         ELSE [path |-> rel_path, content |-> BINARY_CONTENT]

(***************************************************************************)
(* Specification of normalize_content alone.                               *)
(***************************************************************************)
RECURSIVE SeqsUpTo(_, _)
SeqsUpTo(S, n) ==
    IF n = 0 THEN {<<>>}
    ELSE LET shorter == SeqsUpTo(S, n - 1)
         IN  shorter \cup {Append(s, c) : s \in {t \in shorter : Len(t) = n - 1}, c \in S}

TextAlphabet == {97, CR, LF}

Idle == "idle"

InitNorm ==
    /\ pc = "norm"
    /\ text \in SeqsUpTo(TextAlphabet, MaxLen)
    /\ once = Idle /\ twice = Idle
    /\ tree = {} /\ ignore_patterns = {} /\ include_content = FALSE
    /\ include_structure = FALSE /\ max_size = 0 /\ snapshot = <<>>
    /\ stack = <<>> /\ pending = {} /\ cur = <<>> /\ listed = {} /\ opened = {}
    /\ file_bytes = <<>> /\ fault = "none" /\ file_info = Idle

Normalize ==
    /\ pc = "norm"
    /\ once' = normalize_content(text)
    /\ pc' = "renorm"
    /\ UNCHANGED <<text, twice, walkVars, fileVars, include_content, max_size>>

Renormalize ==
    /\ pc = "renorm"
    /\ twice' = normalize_content(once)
    /\ pc' = "normed"
    /\ UNCHANGED <<text, once, walkVars, fileVars, include_content, max_size>>

NextNorm == Normalize \/ Renormalize

SpecNorm == InitNorm /\ [][NextNorm]_vars

(***************************************************************************)
(* Specification of get_file_info alone.                                   *)
(***************************************************************************)
ByteAlphabet == {NUL, LF, CR, 97, 195, 169, 255}

Fill(n) == [i \in 1..n |-> 97]

\* Files longer than the classification sample.
LongFiles ==
    { Fill(SampleSize - 1) \o <<NUL>>,
      Fill(SampleSize) \o <<NUL>>,
      <<CR, LF>> \o Fill(SampleSize),
      <<97, NUL>> \o Fill(SampleSize) }

RelPath == <<97>>                         \* "a"

InitFile ==
    /\ pc = "file"
    /\ file_bytes \in SeqsUpTo(ByteAlphabet, MaxFileLen) \cup LongFiles
    /\ include_content \in BOOLEAN
    /\ max_size \in 0..MaxReadSize
    /\ fault = "none" /\ file_info = Idle
    /\ text = <<>> /\ once = Idle /\ twice = Idle
    /\ tree = {} /\ ignore_patterns = {} /\ include_structure = FALSE
    /\ snapshot = <<>> /\ stack = <<>> /\ pending = {} /\ cur = <<>>
    /\ listed = {} /\ opened = {}

GetFileInfo ==
    /\ pc = "file"
    /\ \E flt \in Faults :
        /\ fault' = flt
        /\ file_info' = get_file_info(file_bytes, RelPath, include_content, max_size, flt)
    /\ pc' = "returned"
    /\ UNCHANGED <<file_bytes, include_content, max_size, walkVars, normVars>>

NextFile == GetFileInfo

SpecFile == InitFile /\ [][NextFile]_vars

(***************************************************************************)
(* Names of the modelled trees, the tool's own names, the ignore sets.     *)
(***************************************************************************)
script_name == <<115, 110, 97, 112, 115, 104, 111, 116, 46, 112, 121>>  \* "snapshot.py"
output_name ==                                      \* "directory_snapshot.json"
    <<100, 105, 114, 101, 99, 116, 111, 114, 121, 95, 115, 110, 97, 112, 115,
      104, 111, 116, 46, 106, 115, 111, 110>>

n_dir1 == <<100, 105, 114, 49>>                     \* "dir1"
n_f1 == <<102, 49>>                                 \* "f1"
n_f2 == <<102, 50>>                                 \* "f2"
n_git == <<46, 103, 105, 116>>                      \* ".git"
n_x == <<120>>                                      \* "x"
n_alog == <<97, 46, 108, 111, 103>>                 \* "a.log"
n_g == <<103>>                                      \* "g"
n_Zed == <<90, 101, 100>>                           \* "Zed"

\* default of --ignore
DefaultIgnore ==
    { <<46, 103, 105, 116>>,                                        \* .git
      <<110, 111, 100, 101, 95, 109, 111, 100, 117, 108, 101, 115>>, \* node_modules
      <<42, 46, 112, 121, 99>>,                                     \* *.pyc
      <<95, 95, 112, 121, 99, 97, 99, 104, 101, 95, 95>>,           \* __pycache__
      <<42, 46, 108, 111, 103>>,                                    \* *.log
      <<116, 97, 114, 103, 101, 116>>,                              \* target
      <<67, 97, 114, 103, 111, 46, 108, 111, 99, 107>> }            \* Cargo.lock

IgnoreSets == { {}, DefaultIgnore, { <<102, 63>>, <<100, 42>> } }   \* f?  d*

STAR == 42
QUESTION == 63

(***************************************************************************)
(* fnmatch.fnmatch(name, pat) on a POSIX host (normcase is the identity)   *)
(* for patterns made of literals, '*' and '?'.                             *)
(***************************************************************************)
RECURSIVE fnmatch(_, _)
fnmatch(name, pat) ==
    IF pat = <<>> THEN name = <<>>
    ELSE IF pat[1] = STAR
         THEN fnmatch(name, Tail(pat)) \/ (name # <<>> /\ fnmatch(Tail(name), pat))
    ELSE IF pat[1] = QUESTION
         THEN name # <<>> /\ fnmatch(Tail(name), Tail(pat))
    ELSE name # <<>> /\ name[1] = pat[1] /\ fnmatch(Tail(name), Tail(pat))

\* any(fnmatch.fnmatch(name, pattern) for pattern in ignore_patterns)
ignored(name) == \E pattern \in ignore_patterns : fnmatch(name, pattern)

(***************************************************************************)
(* The file system below input_dir.                                        *)
(***************************************************************************)
Universe ==
    { [path |-> <<n_dir1>>, kind |-> "dir"],
      [path |-> <<n_dir1, n_f1>>, kind |-> "file"],
      [path |-> <<n_dir1, n_alog>>, kind |-> "file"],
      [path |-> <<n_dir1, output_name>>, kind |-> "file"],
      [path |-> <<n_dir1, n_git>>, kind |-> "dir"],
      [path |-> <<n_dir1, n_git, n_x>>, kind |-> "file"],
      [path |-> <<n_f2>>, kind |-> "file"],
      [path |-> <<n_Zed>>, kind |-> "file"],
      [path |-> <<n_git>>, kind |-> "dir"],
      [path |-> <<n_git, n_x>>, kind |-> "file"],
      [path |-> <<script_name>>, kind |-> "file"],
      [path |-> <<output_name>>, kind |-> "dir"],
      [path |-> <<output_name, n_g>>, kind |-> "file"] }

Front(p) == SubSeq(p, 1, Len(p) - 1)
Last(p) == p[Len(p)]

Trees ==
    { t \in SUBSET Universe :
        /\ Cardinality(t) <= MaxNodes
        /\ \A n \in t : Len(n.path) > 1 =>
               [path |-> Front(n.path), kind |-> "dir"] \in t }

\* bytes of a file, by its name
Contents(path) ==
    IF Last(path) = n_f1 THEN <<104, 105, CR, LF>>        \* b"hi\r\n"
    ELSE IF Last(path) = n_f2 THEN <<NUL, 1>>
    ELSE <<97>>

\* os.path.isdir(path); the root is a directory
isdir(path) == path = <<>> \/ [path |-> path, kind |-> "dir"] \in tree

\* the names os.listdir(path) / os.scandir(path) enumerates
listdir(path) ==
    { Last(n.path) : n \in { m \in tree : Len(m.path) = Len(path) + 1
                                          /\ Front(m.path) = path } }

\* '/'.join(names): os.path.relpath(file_path, base_path).replace(os.sep, '/')
RECURSIVE relpath(_)
relpath(path) ==
    IF path = <<>> THEN <<>>
    ELSE IF Len(path) = 1 THEN path[1]
    ELSE path[1] \o <<SLASH>> \o relpath(Tail(path))

\* a < b for two str, as Python compares them
RECURSIVE StrLess(_, _)
StrLess(a, b) ==
    IF b = <<>> THEN FALSE
    ELSE IF a = <<>> THEN TRUE
    ELSE IF a[1] # b[1] THEN a[1] < b[1]
    ELSE StrLess(Tail(a), Tail(b))

RECURSIVE sorted(_)
sorted(S) ==
    IF S = {} THEN <<>>
    ELSE LET least == CHOOSE x \in S : \A y \in S \ {x} : StrLess(x, y)
         IN  <<least>> \o sorted(S \ {least})

(***************************************************************************)
(* generate_simple_file_structure.                                         *)
(***************************************************************************)
TEE == 9500                               \* U+251C
ELBOW == 9492                             \* U+2514
DASH == 9472                              \* U+2500
BAR == 9474                               \* U+2502
SPACE == 32

LastConnector == <<ELBOW, DASH, DASH, SPACE>>
MidConnector == <<TEE, DASH, DASH, SPACE>>
LastIndent == <<SPACE, SPACE, SPACE, SPACE>>
MidIndent == <<BAR, SPACE, SPACE, SPACE>>

items_unfiltered(path) == sorted(listdir(path))

items_unsorted_tail(path) ==
    LET s == sorted({ item \in listdir(path) :
                        ~ignored(item) /\ item # script_name /\ item # output_name })
    IN  [i \in DOMAIN s |-> s[Len(s) + 1 - i]]

\* the list `items` of add_to_structure
items_of(path) ==
    sorted({ item \in listdir(path) :
               ~ignored(item) /\ item # script_name /\ item # output_name })

\* Returns the lines appended to `structure` and the directories listed.
RECURSIVE add_to_structure(_, _, _, _)
RECURSIVE add_items(_, _, _, _)
add_items(path, new_prefix, items, i) ==
    IF i > Len(items) THEN [structure |-> <<>>, listed |-> {}]
    ELSE LET this == add_to_structure(Append(path, items[i]), new_prefix,
                                      i = Len(items), FALSE)
             rest == add_items(path, new_prefix, items, i + 1)
         IN  [structure |-> this.structure \o rest.structure,
              listed |-> this.listed \cup rest.listed]

add_to_structure(path, prefix, is_last, is_root) ==
    LET connector == IF is_last THEN LastConnector ELSE MidConnector IN
    IF isdir(path)
    THEN LET own == IF is_root THEN <<>>
                    ELSE << prefix \o connector \o Last(path) \o <<SLASH>> >>
             new_prefix == IF is_root THEN <<>>
                           ELSE prefix \o (IF is_last THEN LastIndent ELSE MidIndent)
             below == add_items(path, new_prefix, items_of(path), 1)
         IN  [structure |-> own \o below.structure,
              listed |-> {path} \cup below.listed]
    ELSE IF ~is_root
         THEN [structure |-> << prefix \o connector \o Last(path) >>, listed |-> {}]
         ELSE [structure |-> <<>>, listed |-> {}]

\* '\n'.join(lines)
RECURSIVE join(_)
join(lines) ==
    IF lines = <<>> THEN <<>>
    ELSE IF Len(lines) = 1 THEN lines[1]
    ELSE lines[1] \o <<LF>> \o join(Tail(lines))

generate_simple_file_structure ==
    LET r == add_to_structure(<<>>, <<>>, FALSE, TRUE)
    IN  [text |-> join(r.structure), listed |-> r.listed]

(***************************************************************************)
(* generate_snapshot.                                                      *)
(***************************************************************************)
\* default of --max-size
DefaultMaxSize == 1048576

walk_dirs_unpruned(dirs) == dirs

\* line 77: the directories os.walk will descend into
walk_dirs(dirs) == { d \in dirs : ~ignored(d) }

file_skipped_by_pattern_only(file) == ignored(file)

\* lines 80-85: the file is passed over
file_skipped(file) ==
    ignored(file) \/ file = script_name \/ file = output_name

record_error_init_only(snap, rec) ==
    IF "errors" \in DOMAIN snap
    THEN [snap EXCEPT !.errors = Append(@, rec)]
    ELSE snap @@ [errors |-> <<>>]

\* lines 93-98
record_error(snap, rec) ==
    IF "errors" \in DOMAIN snap
    THEN [snap EXCEPT !.errors = Append(@, rec)]
    ELSE snap @@ [errors |-> <<rec>>]

\* exceptions derived from Exception that get_file_info may let through
ExceptionKinds == {"OSError", "ValueError"}

handled_only_oserror(exc) == exc = "OSError"

\* line 91: except Exception
handled(exc) == exc \in ExceptionKinds

Perms(S) ==
    { q \in [1..Cardinality(S) -> S] : \A i, j \in DOMAIN q : i # j => q[i] # q[j] }

InitWalk ==
    /\ pc = "start"
    /\ tree \in Trees
    /\ ignore_patterns \in IgnoreSets
    /\ include_content \in BOOLEAN
    /\ include_structure \in BOOLEAN
    /\ max_size = DefaultMaxSize
    /\ snapshot = <<>>
    /\ stack = <<>> /\ pending = {} /\ cur = <<>>
    /\ listed = {} /\ opened = {}
    /\ file_bytes = <<>> /\ fault = "none" /\ file_info = Idle
    /\ text = <<>> /\ once = Idle /\ twice = Idle

\* lines 66-74, up to the call of os.walk
Begin ==
    /\ pc = "start"
    /\ LET r == generate_simple_file_structure IN
        /\ snapshot' = IF include_structure
                        THEN [file_structure |-> r.text, files |-> <<>>]
                        ELSE [files |-> <<>>]
        /\ listed' = IF include_structure THEN r.listed ELSE {}
    /\ stack' = << <<>> >>
    /\ pc' = "walk"
    /\ UNCHANGED <<tree, ignore_patterns, include_content, include_structure,
                   max_size, pending, cur, opened, fileVars, normVars>>

\* lines 76-77: os.walk lists the next directory, the loop body prunes dirs
WalkDir ==
    /\ pc = "walk" /\ pending = {} /\ stack # <<>>
    /\ LET top == Head(stack)
           dirs == { d \in listdir(top) : isdir(Append(top, d)) }
           files == listdir(top) \ dirs
       IN  /\ listed' = listed \cup {top}
           /\ cur' = top
           /\ pending' = files
           /\ \E order \in Perms(walk_dirs(dirs)) :
                stack' = [i \in DOMAIN order |-> Append(top, order[i])] \o Tail(stack)
    /\ UNCHANGED <<pc, tree, ignore_patterns, include_content, include_structure,
                   max_size, snapshot, opened, fileVars, normVars>>

\* lines 79-85: continue
SkipFile ==
    /\ pc = "walk"
    /\ \E file \in pending :
        /\ file_skipped(file)
        /\ pending' = pending \ {file}
    /\ UNCHANGED <<pc, tree, ignore_patterns, include_content, include_structure,
                   max_size, snapshot, stack, cur, listed, opened, fileVars, normVars>>

\* lines 87-90: get_file_info returns
AppendFile ==
    /\ pc = "walk"
    /\ \E file \in pending, flt \in Faults :
        LET file_path == Append(cur, file) IN
        /\ ~file_skipped(file)
        /\ snapshot' = [snapshot EXCEPT !.files =
                Append(@, get_file_info(Contents(file_path), relpath(file_path),
                                        include_content, max_size, flt))]
        /\ opened' = IF include_content THEN opened \cup {file_path} ELSE opened
        /\ pending' = pending \ {file}
    /\ UNCHANGED <<pc, tree, ignore_patterns, include_content, include_structure,
                   max_size, stack, cur, listed, fileVars, normVars>>

\* lines 87-98: get_file_info raises outside its own try block; an exception
\* the except clause does not catch leaves generate_snapshot
AppendError ==
    /\ pc = "walk"
    /\ \E file \in pending, exc \in ExceptionKinds :
        LET file_path == Append(cur, file) IN
        /\ ~file_skipped(file)
        /\ IF handled(exc)
           THEN /\ snapshot' = record_error(snapshot,
                                  [path |-> relpath(file_path), error |-> ErrRaise])
                /\ pending' = pending \ {file}
                /\ pc' = pc
           ELSE /\ pc' = "aborted"
                /\ UNCHANGED <<snapshot, pending>>
    /\ UNCHANGED <<tree, ignore_patterns, include_content, include_structure,
                   max_size, stack, cur, listed, opened, fileVars, normVars>>

\* line 100
Return ==
    /\ pc = "walk" /\ pending = {} /\ stack = <<>>
    /\ pc' = "done"
    /\ UNCHANGED <<tree, ignore_patterns, include_content, include_structure,
                   max_size, snapshot, stack, pending, cur, listed, opened,
                   fileVars, normVars>>

WalkStep == WalkDir \/ SkipFile \/ AppendFile \/ AppendError \/ Return

Next == Begin \/ WalkDir \/ SkipFile \/ AppendFile \/ AppendError \/ Return

Spec == InitWalk /\ [][Next]_vars

(***************************************************************************)
(* Reading the results back: str.split, the entries a rendered structure   *)
(* depicts, the paths a snapshot records.                                  *)
(***************************************************************************)
RECURSIVE Split(_, _)
Split(s, sep) ==
    IF \E i \in DOMAIN s : s[i] = sep
    THEN LET i == CHOOSE k \in DOMAIN s :
                      s[k] = sep /\ \A j \in 1..(k - 1) : s[j] # sep
         IN  <<SubSeq(s, 1, i - 1)>> \o Split(SubSeq(s, i + 1, Len(s)), sep)
    ELSE <<s>>

Lines(str) == IF str = <<>> THEN <<>> ELSE Split(str, LF)

\* index of the connector of a rendered line
ConnectorAt(line) ==
    CHOOSE k \in DOMAIN line :
        line[k] \in {TEE, ELBOW} /\ \A j \in 1..(k - 1) : line[j] \notin {TEE, ELBOW}

RECURSIVE ParseLines(_, _, _)
ParseLines(lines, i, ancestors) ==
    IF i > Len(lines) THEN {}
    ELSE LET line == lines[i]
             k == ConnectorAt(line)
             depth == (k - 1) \div 4
             raw == SubSeq(line, k + 4, Len(line))
             dir == raw # <<>> /\ raw[Len(raw)] = SLASH
             name == IF dir THEN Front(raw) ELSE raw
             path == Append(SubSeq(ancestors, 1, depth), name)
         IN  {[path |-> path, kind |-> IF dir THEN "dir" ELSE "file"]}
                 \cup ParseLines(lines, i + 1, path)

\* the entries depicted by snapshot["file_structure"]
Rendered == ParseLines(Lines(snapshot.file_structure), 1, <<>>)

SeqRange(q) == { q[i] : i \in DOMAIN q }

HasFiles == "files" \in DOMAIN snapshot
HasStructure == "file_structure" \in DOMAIN snapshot
HasErrors == "errors" \in DOMAIN snapshot

FileRecords == IF HasFiles THEN SeqRange(snapshot.files) ELSE {}
ErrorRecords == IF HasErrors THEN SeqRange(snapshot.errors) ELSE {}

SelfNames == {script_name, output_name}

\* files of the tree that are not ignored, not self-excluded, under no
\* ignored directory
RetainedFiles ==
    { n \in tree : /\ n.kind = "file"
                   /\ \A i \in DOMAIN n.path : ~ignored(n.path[i])
                   /\ Last(n.path) \notin SelfNames }

(***************************************************************************)
(* C1: no entry whose basename matches an ignore pattern, and nothing      *)
(* below such a directory, is in snapshot["files"] or in the rendered      *)
(* structure: every segment of every recorded or depicted path matches no  *)
(* pattern.                                                                *)
(***************************************************************************)
PruningIsTotal ==
    /\ \A rec \in FileRecords :
           \A seg \in SeqRange(Split(rec.path, SLASH)) : ~ignored(seg)
    /\ HasStructure =>
           \A e \in Rendered : \A seg \in SeqRange(e.path) : ~ignored(seg)

PruningWitness ==
    /\ pc = "done" /\ include_structure
    /\ ignore_patterns = DefaultIgnore
    /\ [path |-> <<n_dir1, n_git, n_x>>, kind |-> "file"] \in tree
    /\ [path |-> <<n_dir1, n_f1>>, kind |-> "file"] \in tree
    /\ Len(snapshot.files) = 1
    /\ Rendered # {}

(***************************************************************************)
(* C2: no exception leaves the walk, the walk can always take its next     *)
(* step until it returns, and at the return every retained file has        *)
(* exactly one entry, a record in files or a record in errors, whatever    *)
(* failures get_file_info met.                                             *)
(***************************************************************************)
Entries(rel) ==
    Cardinality({ i \in DOMAIN snapshot.files : snapshot.files[i].path = rel })
    + (IF HasErrors
       THEN Cardinality({ i \in DOMAIN snapshot.errors : snapshot.errors[i].path = rel })
       ELSE 0)

RendererAgreesWithWalker ==
    (pc = "done" /\ HasStructure) =>
        { relpath(e.path) : e \in { r \in Rendered : r.kind = "file" } }
            = { rec.path : rec \in FileRecords \cup ErrorRecords }

(***************************************************************************)
(* C5: a file named like the running script or like the default output is  *)
(* neither in snapshot["files"] nor depicted in the structure.             *)
(***************************************************************************)
SelfExcluded ==
    \A n \in tree :
        (n.kind = "file" /\ Last(n.path) \in SelfNames) =>
            /\ \A rec \in FileRecords : rec.path # relpath(n.path)
            /\ HasStructure => \A e \in Rendered : e.path # n.path

SelfExcludedWitness ==
    /\ pc = "done" /\ include_structure /\ ignore_patterns = {}
    /\ [path |-> <<n_dir1, output_name>>, kind |-> "file"] \in tree
    /\ [path |-> <<script_name>>, kind |-> "file"] \in tree
    /\ Len(snapshot.files) = 1
    /\ Cardinality(Rendered) = 2

IgnoredNeverEntered ==
    \A p \in listed \cup opened : \A i \in DOMAIN p : ~ignored(p[i])

IgnoredNeverEnteredWitness ==
    /\ pc = "done" /\ include_structure /\ include_content
    /\ ignore_patterns = DefaultIgnore
    /\ [path |-> <<n_git, n_x>>, kind |-> "file"] \in tree
    /\ <<n_dir1>> \in listed
    /\ opened # {}

(***************************************************************************)
(* C6: the structure is the classic tree of the retained entries: one line *)
(* per entry below the root, in pre-order with siblings in code-point      *)
(* order, the line made of one indent per ancestor (four spaces below a    *)
(* last entry, bar and three spaces otherwise), the connector (elbow for   *)
(* the last entry of its directory, tee otherwise), the name, and '/' for  *)
(* a directory.  root/dir1/f1 with root/f2 gives the three lines of the    *)
(* example, and no retained entry gives the empty string.                  *)
(***************************************************************************)
Shown ==
    { n \in tree : \A i \in DOMAIN n.path :
                       ~ignored(n.path[i]) /\ n.path[i] \notin SelfNames }

IsLastShown(p) ==
    \A m \in Shown :
        Front(m.path) = Front(p) => (m.path = p \/ StrLess(Last(m.path), Last(p)))

RECURSIVE PathBefore(_, _)
PathBefore(p, q) ==
    IF p = <<>> THEN q # <<>>
    ELSE IF q = <<>> THEN FALSE
    ELSE IF p[1] # q[1] THEN StrLess(p[1], q[1])
    ELSE PathBefore(Tail(p), Tail(q))

RECURSIVE IndentOf(_, _)
IndentOf(p, k) ==
    IF k >= Len(p) THEN <<>>
    ELSE (IF IsLastShown(SubSeq(p, 1, k)) THEN LastIndent ELSE MidIndent)
             \o IndentOf(p, k + 1)

ExpectedLine(n) ==
    IndentOf(n.path, 1)
        \o (IF IsLastShown(n.path) THEN LastConnector ELSE MidConnector)
        \o Last(n.path)
        \o (IF n.kind = "dir" THEN <<SLASH>> ELSE <<>>)

RECURSIVE ExpectedLines(_)
ExpectedLines(S) ==
    IF S = {} THEN <<>>
    ELSE LET first == CHOOSE n \in S : \A m \in S \ {n} : PathBefore(n.path, m.path)
         IN  <<ExpectedLine(first)>> \o ExpectedLines(S \ {first})

ExampleTree ==
    { [path |-> <<n_dir1>>, kind |-> "dir"],
      [path |-> <<n_dir1, n_f1>>, kind |-> "file"],
      [path |-> <<n_f2>>, kind |-> "file"] }

ExampleText ==
    <<9500, 9472, 9472, 32, 100, 105, 114, 49, 47, 10,
      9474, 32, 32, 32, 9492, 9472, 9472, 32, 102, 49, 10,
      9492, 9472, 9472, 32, 102, 50>>

ClassicTree ==
    HasStructure =>
        /\ snapshot.file_structure = join(ExpectedLines(Shown))
        /\ (tree = ExampleTree /\ ignore_patterns = {}) =>
               snapshot.file_structure = ExampleText
        /\ Shown = {} => snapshot.file_structure = <<>>

ClassicTreeWitness ==
    /\ pc = "done" /\ HasStructure
    /\ tree = ExampleTree /\ ignore_patterns = {}
    /\ snapshot.file_structure = ExampleText

FirstBytes(bytes, n) == [i \in 1..Min(n, Len(bytes)) |-> bytes[i]]

NulInSample(bytes) ==
    \E i \in 1..Min(SampleSize, Len(bytes)) : bytes[i] = NUL

ClassifiedBySample ==
    (pc = "returned" /\ include_content /\ fault = "none") =>
        /\ "content" \in DOMAIN file_info
        /\ NulInSample(file_bytes) => file_info.content = BINARY_CONTENT
        /\ ~NulInSample(file_bytes) =>
               file_info.content =
                   normalize_content(decode(FirstBytes(file_bytes, max_size)))

ClassifiedBySampleWitness ==
    /\ pc = "returned" /\ include_content /\ fault = "none"
    /\ max_size = 1
    /\ file_bytes = Fill(SampleSize - 1) \o <<NUL>>
    /\ file_info.content = BINARY_CONTENT

(***************************************************************************)
(* C8: normalize_content applied twice gives what it gives once, its       *)
(* result has no CR, and the result is the text with each CR LF pair and   *)
(* each other CR turned into one LF.                                       *)
(***************************************************************************)
RECURSIVE OneLfPerLineEnd(_)
OneLfPerLineEnd(s) ==
    IF s = <<>> THEN <<>>
    ELSE IF s[1] = CR /\ Len(s) >= 2 /\ s[2] = LF
         THEN <<LF>> \o OneLfPerLineEnd(SubSeq(s, 3, Len(s)))
    ELSE IF s[1] = CR THEN <<LF>> \o OneLfPerLineEnd(Tail(s))
    ELSE <<s[1]>> \o OneLfPerLineEnd(Tail(s))

NormalizeIdempotent ==
    /\ pc \in {"renorm", "normed"} =>
           /\ \A i \in DOMAIN once : once[i] # CR
           /\ once = OneLfPerLineEnd(text)
    /\ pc = "normed" => twice = once

NormalizeWitness ==
    /\ pc = "normed"
    /\ text = <<97, CR, LF, CR>>
    /\ once = <<97, LF, LF>>

====
